---- MODULE Spec2Model ----
(***************************************************************************)
(* Model of the postprocessor chain of tremor-runtime                      *)
(* (src/src/postprocessor.rs) and of the `tremor run` harness that drives  *)
(* a single postprocessor (src/tremor-cli/src/run.rs).                     *)
(*                                                                         *)
(* Bytes are the naturals 0..255, a buffer (Vec<u8>) is a sequence of      *)
(* bytes, a Vec<Vec<u8>> is a sequence of buffers.  A Result is a record   *)
(* with an `ok` flag; an error message is a sequence of string pieces, in  *)
(* the order format!() puts them.                                          *)
(***************************************************************************)
EXTENDS Integers, Sequences, FiniteSets, TLC

(***************************************************************************)
(* Bounds of the model.                                                    *)
(***************************************************************************)
\* longest list of configurations handed to make_postprocessors
MaxChain == 2
\* most postprocess calls on one chain before it is finished
MaxEvents == 2
\* most reads of the harness' input before end of input is forced
MaxReads == 2
\* length of the long payload used for the framing stages
LongLen == 257

(***************************************************************************)
(* Generic helpers.                                                        *)
(***************************************************************************)
Range(s) == {s[i] : i \in DOMAIN s}

RECURSIVE Flatten(_)
Flatten(ss) == IF ss = <<>> THEN <<>> ELSE Head(ss) \o Flatten(Tail(ss))

Min(a, b) == IF a <= b THEN a ELSE b

\* Option<&[u8]>
None == [some |-> FALSE, data |-> <<>>]
Some(d) == [some |-> TRUE, data |-> d]

(***************************************************************************)
(* byteorder: write_u64::<BigEndian>.  The value is split by repeated      *)
(* division, least significant byte first, so no intermediate exceeds the  *)
(* value itself.                                                           *)
(***************************************************************************)
U64Bytes == 8

RECURSIVE LittleEndian(_, _)
LittleEndian(v, n) ==
    IF n = 0 THEN <<>> ELSE <<v % 256>> \o LittleEndian(v \div 256, n - 1)

Reverse(s) == [i \in 1..Len(s) |-> s[Len(s) + 1 - i]]

write_u64_BigEndian(res, v) == res \o Reverse(LittleEndian(v, U64Bytes))

\* the reader's side of the prefix: the value of a big-endian byte string
RECURSIVE read_BigEndian(_)
read_BigEndian(bs) ==
    IF bs = <<>> THEN 0
    ELSE read_BigEndian(SubSeq(bs, 1, Len(bs) - 1)) * 256 + bs[Len(bs)]

\* usize::to_string().into_bytes(): the decimal ASCII digits
RECURSIVE to_string(_)
to_string(n) ==
    IF n < 10 THEN <<48 + n>> ELSE to_string(n \div 10) \o <<48 + (n % 10)>>

(***************************************************************************)
(* base64::encode: standard alphabet, padded with '='.                     *)
(***************************************************************************)
B64Char(i) ==
    IF i < 26 THEN 65 + i
    ELSE IF i < 52 THEN 97 + (i - 26)
    ELSE IF i < 62 THEN 48 + (i - 52)
    ELSE IF i = 62 THEN 43 ELSE 47

\* the byte at (1-based) position i of d, 0 past its end
ByteAt(d, i) == IF i <= Len(d) THEN d[i] ELSE 0

\* the j-th (0..3) character of the group that encodes bytes 3k-2 .. 3k of d
B64Group(d, k, j) ==
    LET b1 == ByteAt(d, 3 * k - 2)
        b2 == ByteAt(d, 3 * k - 1)
        b3 == ByteAt(d, 3 * k)
    IN  CASE j = 0 -> B64Char(b1 \div 4)
          [] j = 1 -> B64Char((b1 % 4) * 16 + b2 \div 16)
          [] j = 2 -> IF 3 * k - 1 > Len(d) THEN 61
                      ELSE B64Char((b2 % 16) * 4 + b3 \div 64)
          [] j = 3 -> IF 3 * k > Len(d) THEN 61 ELSE B64Char(b3 % 64)

base64_encode(d) ==
    [i \in 1..(4 * ((Len(d) + 2) \div 3)) |-> B64Group(d, (i - 1) \div 4 + 1, (i - 1) % 4)]

(***************************************************************************)
(* Results.                                                                *)
(***************************************************************************)
\* Result<Vec<Vec<u8>>> of one stage call, with the stage as the call left it
StageOk(pp, out) == [ok |-> TRUE, out |-> out, err |-> <<>>, pp |-> pp]
StageErr(pp, e) == [ok |-> FALSE, out |-> <<>>, err |-> e, pp |-> pp]

\* what the underlying encoder or writer reports when it fails
LibError == <<"io error">>

(***************************************************************************)
(* Stages.  A stage is a record: `kind` is the Rust type, the other fields *)
(* are the state the stateful stages own (unused by the others).           *)
(***************************************************************************)
Stage(kind) ==
    [kind |-> kind, separator |-> <<>>, buffered |-> FALSE, buf |-> <<>>,
     chunk_size |-> 0, max_chunks |-> 0, id |-> 0]

StatelessKinds ==
    {"Base64", "Gzip", "Zlib", "Xz2", "Snappy", "Lz4", "Zstd",
     "AttachIngresTs", "LengthPrefix", "TextualLength"}

CompressionKinds == {"Gzip", "Zlib", "Xz2", "Snappy", "Lz4", "Zstd"}

\* Postprocessor::name of each implementation
Name(pp) ==
    CASE pp.kind = "Base64" -> "base64"
      [] pp.kind = "Gzip" -> "gzip"
      [] pp.kind = "Zlib" -> "zlib"
      [] pp.kind = "Xz2" -> "xz2"
      [] pp.kind = "Snappy" -> "snappy"
      [] pp.kind = "Lz4" -> "lz4"
      [] pp.kind = "AttachIngresTs" -> "attach-ingress-ts"
      [] pp.kind = "LengthPrefix" -> "length-prefix"
      [] pp.kind = "TextualLength" -> "textual-length-prefix"
      [] pp.kind = "Zstd" -> "zstd"
      [] pp.kind = "Join" -> "join"
      [] pp.kind = "Gelf" -> "gelf"

(***************************************************************************)
(* The stateless stages of postprocessor.rs.  `libfail` says whether the   *)
(* underlying encoder reports an error in this call (the `?` paths); the   *)
(* stages that write into a Vec only cannot fail and ignore it.            *)
(***************************************************************************)
\* the encoding without its padding
Base64_process_unpadded(pp, ingres_ns, egress_ns, data, libfail) ==
    StageOk(pp, <<SelectSeq(base64_encode(data), LAMBDA c : c # 61)>>)

Base64_process(pp, ingres_ns, egress_ns, data, libfail) ==
    StageOk(pp, <<base64_encode(data)>>)

\* The container each encoder writes is represented by its magic number
\* followed by the block; the block's content is the library's business.
Magic(kind) ==
    CASE kind = "Gzip" -> <<31, 139>>
      [] kind = "Zlib" -> <<120>>
      [] kind = "Xz2" -> <<253, 55, 122, 88, 90, 0>>
      [] kind = "Snappy" -> <<255, 6, 0, 0, 115, 78, 97, 80, 112, 89>>
      [] kind = "Lz4" -> <<4, 34, 77, 24>>
      [] kind = "Zstd" -> <<40, 181, 47, 253>>

Compress_process(pp, ingres_ns, egress_ns, data, libfail) ==
    IF libfail
    THEN IF pp.kind = "Snappy"
         THEN StageErr(pp, <<"Snappy compression postprocessor error: ">> \o LibError)
         ELSE StageErr(pp, LibError)
    ELSE StageOk(pp, <<Magic(pp.kind) \o data>>)

\* the other timestamp put in front
AttachIngresTs_process_egress(pp, ingres_ns, egress_ns, data, libfail) ==
    StageOk(pp, <<write_u64_BigEndian(<<>>, egress_ns) \o data>>)

AttachIngresTs_process(pp, ingres_ns, egress_ns, data, libfail) ==
    StageOk(pp, <<write_u64_BigEndian(<<>>, ingres_ns) \o data>>)

\* a 4-byte prefix (write_u32) in place of the 8-byte one
LengthPrefix_process_u32(pp, ingres_ns, egress_ns, data, libfail) ==
    StageOk(pp, <<Reverse(LittleEndian(Len(data), 4)) \o data>>)

LengthPrefix_process(pp, ingres_ns, egress_ns, data, libfail) ==
    StageOk(pp, <<write_u64_BigEndian(<<>>, Len(data)) \o data>>)

\* a netstring: the payload closed by a comma
TextualLength_process_netstring(pp, ingres_ns, egress_ns, data, libfail) ==
    StageOk(pp, <<((to_string(Len(data)) \o <<32>>) \o data) \o <<44>>>>)

TextualLength_process(pp, ingres_ns, egress_ns, data, libfail) ==
    LET size == Len(data)
        digits == to_string(size)
    IN  StageOk(pp, <<(digits \o <<32>>) \o data>>)

\* a default that hands back one empty frame
Default_finish_empty_frame(pp, data, libfail) == StageOk(pp, <<<<>>>>)

\* a default that hands the buffer it was given on
Default_finish_passthrough(pp, data, libfail) ==
    StageOk(pp, IF data.some THEN <<data.data>> ELSE <<>>)

\* the trait's default finish
Default_finish(pp, data, libfail) == StageOk(pp, <<>>)

(***************************************************************************)
(* The two stateful stages, join and gelf.                                 *)
(***************************************************************************)
\* Join: append the separator; hold the record back when buffering
Join_process(pp, ingres_ns, egress_ns, data, libfail) ==
    LET rec == data \o pp.separator
    IN  IF pp.buffered
        THEN StageOk([pp EXCEPT !.buf = @ \o rec], <<>>)
        ELSE StageOk(pp, <<rec>>)

\* Join: flush what is held, the handed-over buffer being one more record
Join_finish(pp, data, libfail) ==
    LET pending == pp.buf \o (IF data.some THEN data.data \o pp.separator ELSE <<>>)
    IN  IF libfail THEN StageErr(pp, LibError)
        ELSE IF pending = <<>> THEN StageOk(pp, <<>>)
        ELSE StageOk([pp EXCEPT !.buf = <<>>], <<pending>>)

GelfMagic == <<30, 15>>

Gelf_chunk(pp, data, n, i) ==
    ((GelfMagic \o write_u64_BigEndian(<<>>, pp.id)) \o <<i - 1, n>>)
        \o SubSeq(data, (i - 1) * pp.chunk_size + 1, Min(i * pp.chunk_size, Len(data)))

Gelf_encode(pp, data) ==
    LET n == (Len(data) + pp.chunk_size - 1) \div pp.chunk_size
    IN  IF Len(data) <= pp.chunk_size THEN StageOk(pp, <<data>>)
        ELSE IF n > pp.max_chunks THEN StageErr(pp, <<"oversized message">>)
        ELSE StageOk([pp EXCEPT !.id = @ + 1],
                     [i \in 1..n |-> Gelf_chunk(pp, data, n, i)])

Gelf_process(pp, ingres_ns, egress_ns, data, libfail) == Gelf_encode(pp, data)

Gelf_finish(pp, data, libfail) ==
    IF libfail THEN StageErr(pp, LibError)
    ELSE IF data.some THEN Gelf_encode(pp, data.data)
    ELSE StageOk(pp, <<>>)

(***************************************************************************)
(* Dynamic dispatch through Box<dyn Postprocessor>.                        *)
(***************************************************************************)
Process(pp, ingres_ns, egress_ns, data, libfail) ==
    CASE pp.kind = "Base64" -> Base64_process(pp, ingres_ns, egress_ns, data, libfail)
      [] pp.kind \in CompressionKinds ->
            Compress_process(pp, ingres_ns, egress_ns, data, libfail)
      [] pp.kind = "AttachIngresTs" ->
            AttachIngresTs_process(pp, ingres_ns, egress_ns, data, libfail)
      [] pp.kind = "LengthPrefix" ->
            LengthPrefix_process(pp, ingres_ns, egress_ns, data, libfail)
      [] pp.kind = "TextualLength" ->
            TextualLength_process(pp, ingres_ns, egress_ns, data, libfail)
      [] pp.kind = "Join" -> Join_process(pp, ingres_ns, egress_ns, data, libfail)
      [] pp.kind = "Gelf" -> Gelf_process(pp, ingres_ns, egress_ns, data, libfail)

StageFinish(pp, data, libfail) ==
    CASE pp.kind = "Join" -> Join_finish(pp, data, libfail)
      [] pp.kind = "Gelf" -> Gelf_finish(pp, data, libfail)
      [] OTHER -> Default_finish(pp, data, libfail)

(***************************************************************************)
(* The registry.                                                           *)
(***************************************************************************)
\* PostprocessorConfig: a name and its (optional) configuration map
DefaultConfig ==
    [separator |-> <<10>>, buffered |-> FALSE, chunk_size |-> 8192, max_chunks |-> 128]

PostprocessorConfig_from(name) == [name |-> name, config |-> DefaultConfig]

Join_from_config(config) ==
    [ok |-> TRUE,
     val |-> [Stage("Join") EXCEPT !.separator = config.separator,
                                   !.buffered = config.buffered],
     err |-> <<>>]

Join_default == [Stage("Join") EXCEPT !.separator = <<10>>]

Gelf_default == [Stage("Gelf") EXCEPT !.chunk_size = 8192, !.max_chunks = 128]

LookupOk(pp) == [ok |-> TRUE, val |-> pp, err |-> <<>>]
LookupErr(e) == [ok |-> FALSE, val |-> Stage("none"), err |-> e]

\* the registry with the "lines" arm left out
lookup_without_lines(config) ==
    CASE config.name = "join" -> Join_from_config(config.config)
      [] config.name = "base64" -> LookupOk(Stage("Base64"))
      [] config.name = "gzip" -> LookupOk(Stage("Gzip"))
      [] config.name = "zlib" -> LookupOk(Stage("Zlib"))
      [] config.name = "xz2" -> LookupOk(Stage("Xz2"))
      [] config.name = "snappy" -> LookupOk(Stage("Snappy"))
      [] config.name = "lz4" -> LookupOk(Stage("Lz4"))
      [] config.name = "ingest-ns" -> LookupOk(Stage("AttachIngresTs"))
      [] config.name = "length-prefixed" -> LookupOk(Stage("LengthPrefix"))
      [] config.name = "gelf-chunking" -> LookupOk(Gelf_default)
      [] config.name = "textual-length-prefix" -> LookupOk(Stage("TextualLength"))
      [] config.name = "zstd" -> LookupOk(Stage("Zstd"))
      [] OTHER -> LookupErr(<<"Postprocessor '", config.name, "' not found.">>)

lookup_with_config(config) ==
    CASE config.name = "join" -> Join_from_config(config.config)
      [] config.name = "lines" -> LookupOk(Join_default)
      [] config.name = "base64" -> LookupOk(Stage("Base64"))
      [] config.name = "gzip" -> LookupOk(Stage("Gzip"))
      [] config.name = "zlib" -> LookupOk(Stage("Zlib"))
      [] config.name = "xz2" -> LookupOk(Stage("Xz2"))
      [] config.name = "snappy" -> LookupOk(Stage("Snappy"))
      [] config.name = "lz4" -> LookupOk(Stage("Lz4"))
      [] config.name = "ingest-ns" -> LookupOk(Stage("AttachIngresTs"))
      [] config.name = "length-prefixed" -> LookupOk(Stage("LengthPrefix"))
      [] config.name = "gelf-chunking" -> LookupOk(Gelf_default)
      [] config.name = "textual-length-prefix" -> LookupOk(Stage("TextualLength"))
      [] config.name = "zstd" -> LookupOk(Stage("Zstd"))
      [] OTHER -> LookupErr(<<"Postprocessor '", config.name, "' not found.">>)

lookup(name) == lookup_with_config(PostprocessorConfig_from(name))

\* Iterator::collect into Result<Vec<_>>: the first Err ends the iteration
RECURSIVE collect(_, _)
collect(configs, acc) ==
    IF configs = <<>> THEN [ok |-> TRUE, val |-> acc, err |-> <<>>]
    ELSE LET r == lookup_with_config(Head(configs))
         IN  IF r.ok THEN collect(Tail(configs), Append(acc, r.val))
             ELSE [ok |-> FALSE, val |-> <<>>, err |-> r.err]

\* a construction that leaves out what it cannot look up
RECURSIVE collect_known(_, _)
collect_known(configs, acc) ==
    IF configs = <<>> THEN [ok |-> TRUE, val |-> acc, err |-> <<>>]
    ELSE LET r == lookup_with_config(Head(configs))
         IN  collect_known(Tail(configs), IF r.ok THEN Append(acc, r.val) ELSE acc)

make_postprocessors_skipping(postprocessors) == collect_known(postprocessors, <<>>)

make_postprocessors(postprocessors) == collect(postprocessors, <<>>)

(***************************************************************************)
(* postprocess and finish over a chain.  Both are given as the loops of    *)
(* the source: `st` holds the locals (the chain borrowed mutably, data,    *)
(* data1) together with the record of the stage calls made so far.         *)
(* `failAt` names the call (counted from 1) in which the underlying        *)
(* library reports an error, 0 for none.                                   *)
(***************************************************************************)
nanotime(clock) == clock

\* one stage call: which stage, with which arguments, and whether it returned Ok
Call(i, op, ingres_ns, egress_ns, data, ok) ==
    [stage |-> i, op |-> op, ingres_ns |-> ingres_ns, egress_ns |-> egress_ns,
     data |-> data, ok |-> ok]

ChainOk(st) ==
    [ok |-> TRUE, frames |-> st.data, err |-> <<>>, chain |-> st.chain,
     calls |-> st.calls, log |-> <<>>]

ChainErr(st, e, log) ==
    [ok |-> FALSE, frames |-> <<>>, err |-> e, chain |-> st.chain,
     calls |-> st.calls, log |-> log]

\* an error that is swallowed instead of returned
is_err_swallowed(r) == FALSE

\* the `?` after map_err, the `Err(e) =>` arms of finish
is_err(r) == ~r.ok

\* the swap left out: every stage reads the input payload
swap_forgotten(st) == st

\* a swap that keeps the old working set when a stage produced nothing
swap_unless_empty(st) ==
    IF st.data1 = <<>> THEN st ELSE [st EXCEPT !.data = st.data1, !.data1 = st.data]

\* mem::swap(&mut data, &mut data1)
swap(st) == [st EXCEPT !.data = st.data1, !.data1 = st.data]

\* .map_err(|e| format!("[Connector::{alias}] Postprocessor error {e}"))
postprocess_map_err(pp, alias, e) ==
    <<"[Connector::", alias, "] Postprocessor error ">> \o e

\* for d in &data { ... }, from the j-th buffer on
RECURSIVE postprocess_buffers(_, _, _, _, _, _, _)
postprocess_buffers(st, i, j, ingres_ns, egress_ns, alias, failAt) ==
    IF j > Len(st.data) THEN [ok |-> TRUE, st |-> st, err |-> <<>>]
    ELSE LET d == st.data[j]
             r == Process(st.chain[i], ingres_ns, egress_ns, d,
                          failAt = Len(st.calls) + 1)
             called == [st EXCEPT !.chain[i] = r.pp,
                                  !.calls = Append(@, Call(i, "process", ingres_ns,
                                                           egress_ns, Some(d), r.ok))]
         IN  IF is_err(r)
             THEN [ok |-> FALSE, st |-> called,
                   err |-> postprocess_map_err(st.chain[i], alias, r.err)]
             ELSE postprocess_buffers([called EXCEPT !.data1 = @ \o r.out],
                                      i, j + 1, ingres_ns, egress_ns, alias, failAt)

\* for pp in postprocessors { ... }, from the i-th stage on
RECURSIVE postprocess_stages(_, _, _, _, _, _)
postprocess_stages(st, i, ingres_ns, egress_ns, alias, failAt) ==
    IF i > Len(st.chain) THEN ChainOk(st)
    ELSE LET r == postprocess_buffers([st EXCEPT !.data1 = <<>>], i, 1,
                                      ingres_ns, egress_ns, alias, failAt)
         IN  IF ~r.ok THEN ChainErr(r.st, r.err, <<>>)
             ELSE postprocess_stages(swap(r.st), i + 1, ingres_ns, egress_ns,
                                     alias, failAt)

\* the two timestamps handed to the stages in the wrong order
postprocess_swapped_ns(postprocessors, ingres_ns, data, alias, clock, failAt) ==
    LET egress_ns == nanotime(clock)
        st == [chain |-> postprocessors, data |-> <<data>>, data1 |-> <<>>,
               calls |-> <<>>]
    IN  postprocess_stages(st, 1, egress_ns, ingres_ns, alias, failAt)

postprocess(postprocessors, ingres_ns, data, alias, clock, failAt) ==
    LET egress_ns == nanotime(clock)
        st == [chain |-> postprocessors, data |-> <<data>>, data1 |-> <<>>,
               calls |-> <<>>]
    IN  postprocess_stages(st, 1, ingres_ns, egress_ns, alias, failAt)

\* a log line that leaves the stage out
finish_log_unnamed(pp, alias, e) ==
    <<"[Connector::", alias, "] Postprocessor finish error: ">> \o e

\* error!("[Connector::{alias}] Postprocessor '{}' finish error: {e}", pp.name())
finish_log(pp, alias, e) ==
    <<"[Connector::", alias, "] Postprocessor '", Name(pp), "' finish error: ">> \o e

\* for d in &data { match pp.finish(Some(d)) ... }, from the j-th buffer on
RECURSIVE finish_buffers(_, _, _, _, _)
finish_buffers(st, i, j, alias, failAt) ==
    IF j > Len(st.data) THEN [ok |-> TRUE, st |-> st, err |-> <<>>, log |-> <<>>]
    ELSE LET d == st.data[j]
             r == StageFinish(st.chain[i], Some(d), failAt = Len(st.calls) + 1)
             called == [st EXCEPT !.chain[i] = r.pp,
                                  !.calls = Append(@, Call(i, "finish", 0, 0, Some(d), r.ok))]
         IN  IF is_err(r)
             THEN [ok |-> FALSE, st |-> called, err |-> r.err,
                   log |-> <<finish_log(r.pp, alias, r.err)>>]
             ELSE finish_buffers([called EXCEPT !.data1 = @ \o r.out],
                                 i, j + 1, alias, failAt)

\* for pp in tail { ... }, from the i-th stage of the chain on
RECURSIVE finish_tail(_, _, _, _)
finish_tail(st, i, alias, failAt) ==
    IF i > Len(st.chain) THEN ChainOk(st)
    ELSE LET r == finish_buffers([st EXCEPT !.data1 = <<>>], i, 1, alias, failAt)
         IN  IF ~r.ok THEN ChainErr(r.st, r.err, r.log)
             ELSE finish_tail(swap(r.st), i + 1, alias, failAt)

\* a flush that stops after the head of the chain
finish_head_only(postprocessors, alias, failAt) ==
    IF postprocessors = <<>>
    THEN ChainOk([chain |-> postprocessors, data |-> <<>>, calls |-> <<>>])
    ELSE LET r == StageFinish(postprocessors[1], None, failAt = 1)
             st == [chain |-> [postprocessors EXCEPT ![1] = r.pp],
                    data |-> r.out, data1 |-> <<>>,
                    calls |-> <<Call(1, "finish", 0, 0, None, r.ok)>>]
         IN  IF is_err(r) THEN ChainErr(st, r.err, <<finish_log(r.pp, alias, r.err)>>)
             ELSE ChainOk(st)

finish(postprocessors, alias, failAt) ==
    IF postprocessors = <<>>
    THEN ChainOk([chain |-> postprocessors, data |-> <<>>, calls |-> <<>>])
    ELSE LET r == StageFinish(postprocessors[1], None, failAt = 1)
             st == [chain |-> [postprocessors EXCEPT ![1] = r.pp],
                    data |-> r.out, data1 |-> <<>>,
                    calls |-> <<Call(1, "finish", 0, 0, None, r.ok)>>]
         IN  IF is_err(r) THEN ChainErr(st, r.err, <<finish_log(r.pp, alias, r.err)>>)
             ELSE finish_tail(st, 2, alias, failAt)

(***************************************************************************)
(* The harness of `tremor run`: Egress::process and the loop of            *)
(* Ingress::process.  The preprocessor, the codec and the script are       *)
(* outside the model: a read hands over the Returns the script produced    *)
(* for the events of that read, each value already encoded.                *)
(***************************************************************************)
Drop == [kind |-> "Drop", port |-> "", value |-> <<>>]
Emit(port, value) == [kind |-> "Emit", port |-> port, value |-> value]
EmitEvent(port) == [kind |-> "EmitEvent", port |-> port, value |-> <<>>]

ErrPorts == {"err", "error", "stderr"}

\* event.encode() of the event at hand
EventEncoding == <<123, 125>>

\* Egress::process for one Return; `libfail` as for Process.  An Egress is
\* the output written so far, the postprocessor and the calls made on it.
Egress_process(e, ret, clock, libfail) ==
    IF ret.kind = "Drop" THEN [ok |-> TRUE, e |-> e, clock |-> clock]
    ELSE IF ret.kind = "Emit" THEN
        IF ret.port \in ErrPorts
        THEN [ok |-> TRUE, e |-> [e EXCEPT !.buffer = @ \o (ret.value \o <<10>>)],
              clock |-> clock]
        ELSE LET ppd == Process(e.postprocessor, nanotime(clock), nanotime(clock + 1),
                                ret.value, libfail)
                 called == [e EXCEPT !.postprocessor = ppd.pp,
                                     !.calls = Append(@, "process")]
             IN  IF is_err(ppd) THEN [ok |-> FALSE, e |-> called, clock |-> clock + 2]
                 ELSE [ok |-> TRUE,
                       e |-> [called EXCEPT !.buffer = @ \o Flatten(ppd.out)],
                       clock |-> clock + 2]
    ELSE IF ret.port \in ErrPorts THEN [ok |-> TRUE, e |-> e, clock |-> clock]
    ELSE [ok |-> TRUE, e |-> [e EXCEPT !.buffer = @ \o (EventEncoding \o <<10>>)],
          clock |-> clock]

\* for mut data in x { ... handler(...)? }: the Returns of one read, in order;
\* `failAt` counts the Returns of this read
RECURSIVE Ingress_events(_, _, _, _, _)
Ingress_events(e, rets, k, clock, failAt) ==
    IF k > Len(rets) THEN [ok |-> TRUE, e |-> e, clock |-> clock]
    ELSE LET r == Egress_process(e, rets[k], clock, failAt = k)
         IN  IF ~r.ok THEN r
             ELSE Ingress_events(r.e, rets, k + 1, r.clock, failAt)

(***************************************************************************)
(* State.                                                                  *)
(***************************************************************************)
VARIABLES
    chain,      \* the stream's Postprocessors, each stage with its state
    alias,      \* the stream's alias
    clock,      \* what nanotime() returns next
    pc,         \* "live" until the chain was finished, then "finished"
    events,     \* postprocess calls made on the chain
    inp,        \* arguments of the last postprocess / finish call
    res,        \* what that call returned, the stage calls it made, its log
    reg,        \* a registry call: its arguments and what it returned
    cli_pc,     \* where `tremor run` is: "args", "reading", "returned", "failed", "exit"
    cli_arg,    \* the POSTPROCESSOR argument
    egress,     \* the harness' Egress
    reads,      \* reads of the input made by Ingress::process
    unit        \* one stage driven directly: the stage, the last call, its result

chainVars == <<chain, alias, clock, pc, events, inp, res>>
cliVars == <<cli_pc, cli_arg, egress, reads>>
vars == <<chain, alias, clock, pc, events, inp, res, reg, cli_pc, cli_arg,
          egress, reads, unit>>

(***************************************************************************)
(* Inputs.                                                                 *)
(***************************************************************************)
JoinBuffered == [Join_default EXCEPT !.buffered = TRUE]
GelfSmall == [Stage("Gelf") EXCEPT !.chunk_size = 2, !.max_chunks = 2]

StagePool == {Join_default, JoinBuffered, GelfSmall, Stage("Gzip"), Stage("Base64")}

RECURSIVE SeqsUpTo(_, _)
SeqsUpTo(S, n) ==
    IF n = 0 THEN {<<>>}
    ELSE LET shorter == SeqsUpTo(S, n - 1)
         IN  shorter \cup {Append(q, x) : q \in shorter, x \in S}

Chains == SeqsUpTo(StagePool, MaxChain)
Aliases == {"out"}
Payloads == {<<7>>, <<1, 2, 3>>}
IngresSet == {0, 66051}
EgressSet == {1, 259}
FailPoints == 0..(MaxChain + 1)

ValidNames ==
    {"join", "lines", "base64", "gzip", "zlib", "xz2", "snappy", "lz4", "zstd",
     "ingest-ns", "length-prefixed", "gelf-chunking", "textual-length-prefix"}
Names == ValidNames \cup {"snot", "", "length-prefix", "attach-ingress-ts"}

CustomConfig ==
    [separator |-> <<0>>, buffered |-> TRUE, chunk_size |-> 2, max_chunks |-> 2]
Configs ==
    {PostprocessorConfig_from(n) : n \in Names}
        \cup {[name |-> n, config |-> CustomConfig] : n \in {"join", "gelf-chunking", "snot"}}

CliNames == {"lines", "base64", "gzip", "length-prefixed", "snot"}
Returns == {Drop, Emit("out", <<7>>), Emit("err", <<7>>), EmitEvent("out")}
ReadOutcomes == {"eof", "data", "error"}

LongPayload == [i \in 1..LongLen |-> i % 256]
UnitPayloads ==
    {<<>>, <<10>>, <<115, 110, 111, 116>>, <<1, 2, 3>>, <<32, 49, 32>>, LongPayload}
UnitStages == {lookup(n).val : n \in ValidNames}

NoInp == [chain |-> <<>>, data |-> <<>>, ingres_ns |-> 0, clock |-> 0, failAt |-> 0]
NoRes == [op |-> "none", ok |-> TRUE, frames |-> <<>>, err |-> <<>>,
          calls |-> <<>>, log |-> <<>>]
NoReg == [op |-> "none", configs |-> <<>>, ok |-> TRUE, val |-> <<>>, err |-> <<>>]
NoEgress == [buffer |-> <<>>, postprocessor |-> Stage("none"), calls |-> <<>>]
NoUnit == [pp |-> Stage("none"), n |-> 0, finishes |-> 0, op |-> "none", data |-> None,
           ingres_ns |-> 0, egress_ns |-> 0, ok |-> TRUE, out |-> <<>>]

ChainIdle ==
    /\ chain = <<>> /\ alias = "out" /\ clock = 1 /\ pc = "idle" /\ events = 0
    /\ inp = NoInp /\ res = NoRes
RegIdle == reg = NoReg
CliIdle == cli_pc = "idle" /\ cli_arg = "" /\ egress = NoEgress /\ reads = 0
UnitIdle == unit = NoUnit

Returned(op, r) ==
    [op |-> op, ok |-> r.ok, frames |-> r.frames, err |-> r.err,
     calls |-> r.calls, log |-> r.log]

(***************************************************************************)
(* The chain: one stream's chain, events pushed through it, then finish.   *)
(***************************************************************************)
Init ==
    /\ chain \in Chains
    /\ alias \in Aliases
    /\ clock = 1
    /\ pc = "live"
    /\ events = 0
    /\ inp = NoInp
    /\ res = NoRes
    /\ RegIdle /\ CliIdle /\ UnitIdle

\* the stream's owner pushes one encoded event through the chain
Postprocess ==
    /\ pc = "live"
    /\ events < MaxEvents
    /\ \E data \in Payloads, ingres_ns \in IngresSet, failAt \in FailPoints :
          LET r == postprocess(chain, ingres_ns, data, alias, clock, failAt)
          IN  /\ chain' = r.chain
              /\ res' = Returned("postprocess", r)
              /\ inp' = [chain |-> chain, data |-> data, ingres_ns |-> ingres_ns,
                         clock |-> clock, failAt |-> failAt]
    /\ clock' = clock + 1
    /\ events' = events + 1
    /\ UNCHANGED <<alias, pc, reg, cli_pc, cli_arg, egress, reads, unit>>

\* the stream is torn down
Finish ==
    /\ pc = "live"
    /\ \E failAt \in FailPoints :
          LET r == finish(chain, alias, failAt)
          IN  /\ chain' = r.chain
              /\ res' = Returned("finish", r)
              /\ inp' = [chain |-> chain, data |-> <<>>, ingres_ns |-> 0,
                         clock |-> clock, failAt |-> failAt]
    /\ pc' = "finished"
    /\ UNCHANGED <<alias, clock, events, reg, cli_pc, cli_arg, egress, reads, unit>>

Next == Postprocess \/ Finish

Spec == Init /\ [][Next]_vars

(***************************************************************************)
(* The registry: lookup, lookup_with_config and make_postprocessors on     *)
(* the configurations drawn initially.                                     *)
(***************************************************************************)
InitRegistry ==
    /\ reg \in {[NoReg EXCEPT !.configs = cs] : cs \in SeqsUpTo(Configs, MaxChain)}
    /\ ChainIdle /\ CliIdle /\ UnitIdle

Registered(op, r, val) ==
    [reg EXCEPT !.op = op, !.ok = r.ok, !.val = val, !.err = r.err]

\* lookup(name), the name-only form
Lookup ==
    /\ reg.op = "none"
    /\ Len(reg.configs) = 1
    /\ reg.configs[1].config = DefaultConfig
    /\ LET r == lookup(reg.configs[1].name)
       IN  reg' = Registered("lookup", r, IF r.ok THEN <<r.val>> ELSE <<>>)
    /\ UNCHANGED <<chainVars, cliVars, unit>>

LookupWithConfig ==
    /\ reg.op = "none"
    /\ Len(reg.configs) = 1
    /\ LET r == lookup_with_config(reg.configs[1])
       IN  reg' = Registered("lookup_with_config", r, IF r.ok THEN <<r.val>> ELSE <<>>)
    /\ UNCHANGED <<chainVars, cliVars, unit>>

MakePostprocessors ==
    /\ reg.op = "none"
    /\ LET r == make_postprocessors(reg.configs)
       IN  reg' = Registered("make_postprocessors", r, r.val)
    /\ UNCHANGED <<chainVars, cliVars, unit>>

NextRegistry == Lookup \/ LookupWithConfig \/ MakePostprocessors

SpecRegistry == InitRegistry /\ [][NextRegistry]_vars

(***************************************************************************)
(* `tremor run`: Egress::from_args, then the loop of Ingress::process.     *)
(***************************************************************************)
InitCli ==
    /\ cli_pc = "args"
    /\ cli_arg \in CliNames
    /\ egress = NoEgress
    /\ reads = 0
    /\ clock = 1
    /\ chain = <<>> /\ alias = "out" /\ pc = "idle" /\ events = 0
    /\ inp = NoInp /\ res = NoRes
    /\ RegIdle /\ UnitIdle

\* Egress::from_args: an unknown postprocessor ends the process with status 1
Egress_from_args ==
    /\ cli_pc = "args"
    /\ LET postprocessor == lookup(cli_arg)
       IN  IF is_err(postprocessor)
           THEN cli_pc' = "exit" /\ egress' = egress
           ELSE /\ cli_pc' = "reading"
                /\ egress' = [egress EXCEPT !.postprocessor = postprocessor.val]
    /\ UNCHANGED <<chainVars, cli_arg, reads, reg, unit>>

\* one turn of the loop of Ingress::process: a read and what follows from it
Ingress_process ==
    /\ cli_pc = "reading"
    /\ \E outcome \in ReadOutcomes :
          \/ /\ outcome = "eof"
             /\ cli_pc' = "returned"
             /\ UNCHANGED <<egress, clock, reads>>
          \/ /\ outcome = "error"
             /\ cli_pc' = "failed"
             /\ UNCHANGED <<egress, clock, reads>>
          \/ /\ outcome = "data"
             /\ reads < MaxReads
             /\ \E rets \in SeqsUpTo(Returns, 2), failAt \in 0..2 :
                   LET r == Ingress_events(egress, rets, 1, clock, failAt)
                   IN  /\ egress' = r.e
                       /\ clock' = r.clock
                       /\ cli_pc' = IF r.ok THEN "reading" ELSE "failed"
             /\ reads' = reads + 1
    /\ UNCHANGED <<chain, alias, pc, events, inp, res, cli_arg, reg, unit>>

NextCli == Egress_from_args \/ Ingress_process

SpecCli == InitCli /\ [][NextCli]_vars

(***************************************************************************)
(* A single stage, as built by lookup, driven directly.                    *)
(***************************************************************************)
InitStage ==
    /\ unit \in {[NoUnit EXCEPT !.pp = pp] : pp \in UnitStages}
    /\ ChainIdle /\ RegIdle /\ CliIdle

UnitProcess ==
    /\ unit.n < MaxEvents
    /\ \E data \in UnitPayloads, ingres_ns \in IngresSet, egress_ns \in EgressSet,
          libfail \in BOOLEAN :
          LET r == Process(unit.pp, ingres_ns, egress_ns, data, libfail)
          IN  unit' = [pp |-> r.pp, n |-> unit.n + 1, finishes |-> unit.finishes,
                       op |-> "process",
                       data |-> Some(data), ingres_ns |-> ingres_ns,
                       egress_ns |-> egress_ns, ok |-> r.ok, out |-> r.out]
    /\ UNCHANGED <<chainVars, cliVars, reg>>

UnitFinish ==
    /\ unit.n < MaxEvents + 1
    /\ LET r == StageFinish(unit.pp, None, FALSE)
       IN  unit' = [pp |-> r.pp, n |-> unit.n + 1, finishes |-> unit.finishes + 1,
                    op |-> "finish", data |-> None,
                    ingres_ns |-> 0, egress_ns |-> 0, ok |-> r.ok, out |-> r.out]
    /\ UNCHANGED <<chainVars, cliVars, reg>>

NextStage == UnitProcess \/ UnitFinish

SpecStage == InitStage /\ [][NextStage]_vars

(***************************************************************************)
(* Properties of the chain executor and the flush coordinator.             *)
(***************************************************************************)
LastCall(r) == r.calls[Len(r.calls)]
FailingStage == inp.chain[LastCall(res).stage]

\* the stage after it processed the first k of the buffers, one after another
RECURSIVE StageAfter(_, _, _, _, _)
StageAfter(pp, bufs, k, ingres_ns, egress_ns) ==
    IF k = 0 THEN pp
    ELSE Process(StageAfter(pp, bufs, k - 1, ingres_ns, egress_ns),
                 ingres_ns, egress_ns, bufs[k], FALSE).pp

\* the working set after the first k stages of chain c
RECURSIVE WorkingSet(_, _, _, _, _)
WorkingSet(c, k, data, ingres_ns, egress_ns) ==
    IF k = 0 THEN <<data>>
    ELSE LET bufs == WorkingSet(c, k - 1, data, ingres_ns, egress_ns)
         IN  Flatten([j \in 1..Len(bufs) |->
                 Process(StageAfter(c[k], bufs, j - 1, ingres_ns, egress_ns),
                         ingres_ns, egress_ns, bufs[j], FALSE).out])

\* C1: a postprocess call in which no stage fails returns the left-to-right
\* fold of the chain over the single input payload: after each stage the
\* working set is the in-order concatenation of that stage's outputs.
C1_PostprocessIsFold ==
    (res.op = "postprocess" /\ res.ok) =>
        res.frames = WorkingSet(inp.chain, Len(inp.chain), inp.data,
                                inp.ingres_ns, nanotime(inp.clock))

\* a two-stage chain whose first stage fanned the payload out
C1_Witness ==
    /\ res.op = "postprocess" /\ res.ok
    /\ Len(inp.chain) = 2
    /\ Len(WorkingSet(inp.chain, 1, inp.data, inp.ingres_ns, nanotime(inp.clock))) = 2
    /\ Len(res.frames) = 2

\* C2: a postprocess call fails exactly when a stage call fails; the failing
\* call is the last call made (no later buffer, no later stage), and the
\* caller gets an error and no frames.
C2_PostprocessAbortsOnFailure ==
    res.op = "postprocess" =>
        LET n == Len(res.calls)
        IN  /\ res.ok <=> \A k \in 1..n : res.calls[k].ok
            /\ ~res.ok =>
                  /\ n >= 1
                  /\ ~res.calls[n].ok
                  /\ \A k \in 1..(n - 1) : res.calls[k].ok
                  /\ res.frames = <<>>
                  /\ res.err # <<>>

\* the second stage fails on the first of two buffers the first stage produced
C2_Witness ==
    /\ res.op = "postprocess" /\ ~res.ok
    /\ Len(res.calls) = 2
    /\ LastCall(res).stage = 2
    /\ Len(WorkingSet(inp.chain, 1, inp.data, inp.ingres_ns, nanotime(inp.clock))) = 2

\* C3: the error of a failed postprocess call carries the name of the stage
\* that failed and the alias of the stream.
C3_PostprocessErrorNamesStageAndAlias ==
    (res.op = "postprocess" /\ ~res.ok) =>
        /\ alias \in Range(res.err)
        /\ Name(FailingStage) \in Range(res.err)

\* C4: a successful chain-level finish calls finish once on every stage, in
\* chain order.
C4_FinishOncePerStage ==
    (res.op = "finish" /\ res.ok) =>
        [k \in 1..Len(res.calls) |-> res.calls[k].stage]
            = [i \in 1..Len(inp.chain) |-> i]

\* the stage of chain c after finish(Some(_)) on the first k of the buffers
RECURSIVE FinishedAfter(_, _, _)
FinishedAfter(pp, bufs, k) ==
    IF k = 0 THEN pp
    ELSE StageFinish(FinishedAfter(pp, bufs, k - 1), Some(bufs[k]), FALSE).pp

\* the buffers held after the first k stages of chain c were finished
RECURSIVE Held(_, _)
Held(c, k) ==
    IF k = 1 THEN StageFinish(c[1], None, FALSE).out
    ELSE LET bufs == Held(c, k - 1)
         IN  Flatten([j \in 1..Len(bufs) |->
                 StageFinish(FinishedAfter(c[k], bufs, j - 1), Some(bufs[j]), FALSE).out])

NotFound(name) == <<"Postprocessor '", name, "' not found.">>

\* C7: lookup (by configuration or by name alone) returns a stage exactly for
\* the thirteen registry names, and for every other name an error value
\* that says the postprocessor was not found.
C7_LookupByName ==
    reg.op \in {"lookup", "lookup_with_config"} =>
        LET name == reg.configs[1].name
        IN  /\ reg.ok <=> name \in ValidNames
            /\ reg.ok => Len(reg.val) = 1 /\ reg.err = <<>>
            /\ ~reg.ok => reg.val = <<>> /\ reg.err = NotFound(name)

\* the name-only form asked for "snot"
C7_Witness ==
    /\ reg.op = "lookup"
    /\ reg.configs[1].name = "snot"
    /\ ~reg.ok

UnknownAt(cs) == {i \in 1..Len(cs) : cs[i].name \notin ValidNames}

\* C8: make_postprocessors returns one stage per configuration, in the
\* order of the list, when every name is known; otherwise it returns no
\* chain and the error of the first unknown name of the list.
C8_MakePostprocessors ==
    reg.op = "make_postprocessors" =>
        LET cs == reg.configs
            unknown == UnknownAt(cs)
        IN  IF unknown = {}
            THEN /\ reg.ok
                 /\ Len(reg.val) = Len(cs)
                 /\ \A i \in 1..Len(cs) : reg.val[i] = lookup_with_config(cs[i]).val
            ELSE /\ ~reg.ok
                 /\ reg.val = <<>>
                 /\ \E i \in unknown :
                       /\ \A j \in unknown : i <= j
                       /\ reg.err = NotFound(cs[i].name)

\* two unknown names in one list: the error is that of the first
C8_Witness ==
    /\ reg.op = "make_postprocessors"
    /\ Len(reg.configs) = 2
    /\ reg.configs[1].name = "snot"
    /\ reg.configs[2].name = "length-prefix"
    /\ ~reg.ok

(***************************************************************************)
(* Properties of the harness.                                              *)
(***************************************************************************)
\* C9: when Ingress::process has returned at the end of the input, finish
\* was called on the harness' postprocessor.
C9_HarnessFinishesAtEof ==
    cli_pc = "returned" => "finish" \in Range(egress.calls)

(***************************************************************************)
(* Properties of the single stages.                                        *)
(***************************************************************************)
\* C10: LengthPrefix.process returns one frame of len(payload) + 8 bytes:
\* eight bytes that read, big-endian, as len(payload), then the payload.
C10_LengthPrefixFrame ==
    (unit.op = "process" /\ unit.pp.kind = "LengthPrefix") =>
        LET d == unit.data.data
        IN  /\ unit.ok
            /\ Len(unit.out) = 1
            /\ Len(unit.out[1]) = Len(d) + 8
            /\ \A i \in 1..8 : unit.out[1][i] \in 0..255
            /\ read_BigEndian(SubSeq(unit.out[1], 1, 8)) = Len(d)
            /\ SubSeq(unit.out[1], 9, Len(unit.out[1])) = d

\* a payload whose length does not fit one byte
C10_Witness ==
    /\ unit.op = "process"
    /\ unit.pp.kind = "LengthPrefix"
    /\ Len(unit.data.data) > 255
    /\ unit.out[1][7] > 0

\* the reader's side of the textual prefix: where the first space byte is,
\* and the number the decimal digits before it spell
FirstSpace(f) == CHOOSE i \in 1..Len(f) : f[i] = 32 /\ \A j \in 1..(i - 1) : f[j] # 32

RECURSIVE ParseDecimal(_)
ParseDecimal(ds) ==
    IF ds = <<>> THEN 0
    ELSE ParseDecimal(SubSeq(ds, 1, Len(ds) - 1)) * 10 + (ds[Len(ds)] - 48)

\* C11: TextualLength.process returns one frame: the decimal digits of
\* len(payload), one space byte, then the payload and nothing after it; the
\* digits before the first space parse to len(payload); [1,2,3] gives "3 "
\* and the three bytes.
C11_TextualLengthFrame ==
    (unit.op = "process" /\ unit.pp.kind = "TextualLength") =>
        LET d == unit.data.data
        IN  /\ unit.ok
            /\ Len(unit.out) = 1
            /\ \E i \in 1..Len(unit.out[1]) : unit.out[1][i] = 32
            /\ LET f == unit.out[1]
                   p == FirstSpace(f)
               IN  /\ p > 1
                   /\ \A i \in 1..(p - 1) : f[i] \in 48..57
                   /\ p > 2 => f[1] # 48
                   /\ ParseDecimal(SubSeq(f, 1, p - 1)) = Len(d)
                   /\ SubSeq(f, p + 1, Len(f)) = d
            /\ d = <<1, 2, 3>> => unit.out[1] = <<51, 32, 1, 2, 3>>

\* a payload that itself holds space and digit bytes
C11_Witness ==
    /\ unit.op = "process"
    /\ unit.pp.kind = "TextualLength"
    /\ unit.data.data = <<32, 49, 32>>
    /\ unit.out = << <<51, 32, 32, 49, 32>> >>

\* C12: the ingest-timestamp stage returns one frame: eight bytes that read,
\* big-endian, as ingress_ns (not egress_ns), then the payload.
C12_AttachIngresTsFrame ==
    (unit.op = "process" /\ unit.pp.kind = "AttachIngresTs") =>
        LET d == unit.data.data
        IN  /\ unit.ok
            /\ Len(unit.out) = 1
            /\ Len(unit.out[1]) = Len(d) + 8
            /\ \A i \in 1..8 : unit.out[1][i] \in 0..255
            /\ SubSeq(unit.out[1], 1, 4) = <<0, 0, 0, 0>>
            /\ read_BigEndian(SubSeq(unit.out[1], 5, 8)) = unit.ingres_ns
            /\ SubSeq(unit.out[1], 9, Len(unit.out[1])) = d

\* an ingress time of several bytes, in front of a payload
C12_Witness ==
    /\ unit.op = "process"
    /\ unit.pp.kind = "AttachIngresTs"
    /\ unit.ingres_ns = 66051
    /\ unit.egress_ns # unit.ingres_ns
    /\ unit.out = << <<0, 0, 0, 0, 0, 1, 2, 3, 10>> >>

\* the reader's side of base64: the value of a character of the standard
\* alphabet, and the i-th byte that an encoded text e spells
B64Val(c) ==
    IF c \in 65..90 THEN c - 65
    ELSE IF c \in 97..122 THEN c - 71
    ELSE IF c \in 48..57 THEN c + 4
    ELSE IF c = 43 THEN 62
    ELSE IF c = 47 THEN 63 ELSE 0

B64Alphabet == (65..90) \cup (97..122) \cup (48..57) \cup {43, 47}

B64Decoded(e, i) ==
    LET g == 4 * ((i - 1) \div 3)
        v1 == B64Val(e[g + 1])
        v2 == B64Val(e[g + 2])
        v3 == B64Val(e[g + 3])
        v4 == B64Val(e[g + 4])
    IN  CASE (i - 1) % 3 = 0 -> v1 * 4 + v2 \div 16
          [] (i - 1) % 3 = 1 -> (v2 % 16) * 16 + v3 \div 4
          [] (i - 1) % 3 = 2 -> (v3 % 4) * 64 + v4

\* C13: Base64.process returns one frame, the padded standard-alphabet
\* base64 text of the payload: four characters per three bytes, '=' only as
\* the padding of the last group, decoding to the payload; empty gives the
\* empty frame, "\n" gives "Cg==", "snot" gives "c25vdA==".
C13_Base64Frame ==
    (unit.op = "process" /\ unit.pp.kind = "Base64") =>
        LET d == unit.data.data
            n == Len(d)
            pad == (3 - (n % 3)) % 3
        IN  /\ unit.ok
            /\ Len(unit.out) = 1
            /\ Len(unit.out[1]) = 4 * ((n + 2) \div 3)
            /\ \A i \in 1..Len(unit.out[1]) :
                  IF i > Len(unit.out[1]) - pad THEN unit.out[1][i] = 61
                  ELSE unit.out[1][i] \in B64Alphabet
            /\ \A i \in 1..n : B64Decoded(unit.out[1], i) = d[i]
            /\ d = <<>> => unit.out = << <<>> >>
            /\ d = <<10>> => unit.out = << <<67, 103, 61, 61>> >>
            /\ d = <<115, 110, 111, 116>> =>
                  unit.out = << <<99, 50, 53, 118, 100, 65, 61, 61>> >>

\* "snot" encoded
C13_Witness ==
    /\ unit.op = "process"
    /\ unit.pp.kind = "Base64"
    /\ unit.data.data = <<115, 110, 111, 116>>
    /\ unit.out = << <<99, 50, 53, 118, 100, 65, 61, 61>> >>

\* C14: finish(None) of a stateless stage returns the empty sequence,
\* whatever process calls came before, and again when called again.
C14_StatelessFinishEmpty ==
    (unit.op = "finish" /\ unit.pp.kind \in StatelessKinds) =>
        unit.ok /\ unit.out = <<>>

\* a second finish of a stateless stage that had processed a payload
C14_Witness ==
    /\ unit.op = "finish"
    /\ unit.pp.kind \in StatelessKinds
    /\ unit.finishes = 2
    /\ unit.n = 3
    /\ unit.out = <<>>

(***************************************************************************)
(* Further properties of the chain executor and the flush coordinator.     *)
(***************************************************************************)
\* C15: every stage call of one postprocess call gets the caller's
\* ingres_ns and one and the same egress_ns, the time read once when the
\* call began.
C15_TimestampsShared ==
    res.op = "postprocess" =>
        \A k \in 1..Len(res.calls) :
            /\ res.calls[k].op = "process"
            /\ res.calls[k].ingres_ns = inp.ingres_ns
            /\ res.calls[k].egress_ns = nanotime(inp.clock)
            /\ res.calls[k].egress_ns = res.calls[1].egress_ns

\* the second event of a stream, three stage calls over two stages
C15_Witness ==
    /\ res.op = "postprocess"
    /\ inp.ingres_ns = 66051
    /\ inp.clock = 2
    /\ Len(res.calls) = 3
    /\ res.calls[1].stage = 1
    /\ res.calls[3].stage = 2

\* no call of the stages up to the i-th failed
NoFailureUpTo(i) ==
    \A k \in 1..Len(res.calls) : res.calls[k].stage <= i => res.calls[k].ok

\* C16: once a stage of a postprocess call has produced no frame for any of
\* its buffers, no later stage is called (later stages keep their state) and
\* the call returns Ok with no frames; with the empty chain the call returns
\* the payload as its one frame.
C16_EmptyWorkingSetEndsChain ==
    res.op = "postprocess" =>
        /\ \A i \in 1..Len(inp.chain) :
              ( /\ NoFailureUpTo(i)
                /\ WorkingSet(inp.chain, i, inp.data, inp.ingres_ns,
                              nanotime(inp.clock)) = <<>> ) =>
                  /\ res.ok
                  /\ res.frames = <<>>
                  /\ \A k \in 1..Len(res.calls) : res.calls[k].stage <= i
                  /\ \A j \in (i + 1)..Len(inp.chain) : chain[j] = inp.chain[j]
        /\ inp.chain = <<>> => res.ok /\ res.frames = <<inp.data>> /\ res.calls = <<>>

\* a buffering join holds the event back; the chunking stage after it is
\* not called
C16_Witness ==
    /\ res.op = "postprocess" /\ res.ok
    /\ Len(inp.chain) = 2
    /\ inp.chain[1].kind = "Join" /\ inp.chain[1].buffered
    /\ inp.chain[2].kind = "Gelf"
    /\ Len(res.calls) = 1
    /\ res.frames = <<>>

\* C17: a successful chain-level finish of a chain of two or more stages
\* whose last stage is stateless returns no frames, also when an earlier
\* stage flushed some: they go to the last stage's finish, which drops them.
C17_StatelessTailFlushesNothing ==
    ( /\ res.op = "finish" /\ res.ok
      /\ Len(inp.chain) >= 2
      /\ inp.chain[Len(inp.chain)].kind \in StatelessKinds ) =>
        res.frames = <<>>

\* a buffering join flushed its record into the finish of a stateless stage
C17_Witness ==
    /\ res.op = "finish" /\ res.ok
    /\ Len(inp.chain) = 2
    /\ inp.chain[2].kind \in StatelessKinds
    /\ Held(inp.chain, 1) # <<>>
    /\ Len(res.calls) = 2
    /\ res.calls[2].stage = 2
    /\ res.calls[2].data.some
    /\ res.frames = <<>>

\* C18: the stage that lookup builds for a valid registry name reports that
\* name as its name().
C18_LookupNameIsRegistryName ==
    (reg.op = "lookup" /\ reg.ok) => Name(reg.val[1]) = reg.configs[1].name

====
